---- MODULE Spec2Model ----
(***************************************************************************)
(* Bond Builder Arena: the simulation engine of components/Arena (atoms,   *)
(* bonds, drag gestures, stability scan, undo history), as a state machine.*)
(*                                                                         *)
(* Abstractions.  Positions are points of a line (y = 0 throughout) drawn  *)
(* from Pos: two atoms are at the same place, within every threshold, or  *)
(* 145 pixels apart, beyond every threshold.  The force                    *)
(* integration is floating point: a tick moves every atom that is not      *)
(* dragged to any position, and a dragged atom to a position between its   *)
(* own and the pointer.  Velocities are not kept: the record `last' names  *)
(* the velocities a pointer handler assigns.  uuid() is a counter:         *)
(* identifiers are fresh.                                                  *)
(***************************************************************************)
EXTENDS Integers, Sequences, FiniteSets, TLC

\* ---------------------------------------------------------------- bounds
MaxAtomId == 3
MaxBondId == 2
MaxTypeIndex == 4
\* the stores the stability scan is tried on: atoms and bonds already there
ScanAtoms == 5
ScanBonds == 2
\* the ticks a particle lives (the code: 1.0 / 0.02 = 50)
ParticleLife == 1
UndoAtoms == 4
UndoHist == 3
SpawnFree == 3

\* ------------------------------------------------------------- constants
BOND_DISTANCE == 70
POPULATION_CAP == 18
SPAWN_MS == 1500
SCORE_PER_ATOM == 100

ATOM_DEFS ==
  [H  |-> [symbol |-> "H",  valency |-> 1, radius |-> 20],
   O  |-> [symbol |-> "O",  valency |-> 2, radius |-> 28],
   N  |-> [symbol |-> "N",  valency |-> 3, radius |-> 29],
   C  |-> [symbol |-> "C",  valency |-> 4, radius |-> 30],
   Cl |-> [symbol |-> "Cl", valency |-> 1, radius |-> 27],
   S  |-> [symbol |-> "S",  valency |-> 2, radius |-> 29],
   P  |-> [symbol |-> "P",  valency |-> 3, radius |-> 30]]

types == <<"H", "H", "H", "O", "O", "C", "C", "N", "Cl", "S", "P">>

Min(a, b) == IF a <= b THEN a ELSE b

SpawnTypes == {types[i] : i \in 1..Min(MaxTypeIndex, Len(types))}

\* x coordinates an atom or the pointer can have (pixels)
Pos == {0, 145}

\* milliseconds between two frames: the spawn interval has passed, or not
Dts == {0, 1600}

Null == 0

VARIABLES gameActive, atoms, bonds, bondHistory, particles, lastSpawnAge,
          draggedAtom, mouse, dragSession, nextAtomId, nextBondId,
          lookups, gestureBonds, historyFloor, last

vars == <<gameActive, atoms, bonds, bondHistory, particles, lastSpawnAge,
          draggedAtom, mouse, dragSession, nextAtomId, nextBondId,
          lookups, gestureBonds, historyFloor, last>>

\* ---------------------------------------------------------------- helpers
Range(s) == {s[i] : i \in DOMAIN s}

Valency(a) == ATOM_DEFS[a.type].valency

Ids(as) == {as[i].id : i \in DOMAIN as}

\* Array.prototype.findIndex / find, given the indices whose elements pass:
\* the first of them, and 0 (for undefined and -1) when there is none
FirstIndex(passing) ==
  IF passing = {} THEN 0 ELSE CHOOSE i \in passing : \A j \in passing : i <= j

\* squared distance of two x coordinates (dy = 0)
DistSq(x1, x2) == (x2 - x1) * (x2 - x1)

\* dist < limit, with dist = Math.sqrt(dx*dx + dy*dy) and limit > 0
Within(x1, x2, limit) == DistSq(x1, x2) < limit * limit

\* [a, b].sort().join('-')
PairKey(a, b) == IF a <= b THEN <<a, b>> ELSE <<b, a>>

\* a bond joins the atoms with ids a and b, in either direction
IsBonded(bs, a, b) ==
  \E i \in DOMAIN bs :
    \/ bs[i].atom1Id = a /\ bs[i].atom2Id = b
    \/ bs[i].atom1Id = b /\ bs[i].atom2Id = a

\* what one operation reported: the ghost record the claims read
NoLast(op) ==
  [op |-> op, created |-> <<>>, undone |-> <<>>, scanAtoms |-> <<>>,
   scanBonds |-> <<>>, reported |-> <<>>, scores |-> <<>>, errors |-> <<>>,
   formed |-> <<>>, hit |-> Null, released |-> Null, nearby |-> Null,
   vel |-> {}, popped |-> <<>>]

\* an operation that had nothing to report
Quiet == NoLast("none")

\* ------------------------------------------------------- createExplosion
\* particlesRef is kept as the life of its youngest particle, in ticks; a
\* particle is pushed with life 1.0 and loses 0.02 a tick
NoParticles == 0 - 1

createExplosion(ps) == ParticleLife

\* step 5: filter(p => p.life > 0), then p.life -= 0.02
Age(ps) == IF ps > 0 THEN ps - 1 ELSE NoParticles

\* ------------------------------------------------------------- spawnAtom
\* the atom spawnAtom pushes; its position is "just outside an edge"
spawnAtom(id, type, x) ==
  [id |-> id, type |-> type, x |-> x, currentBonds |-> 0,
   bondedAtomIds |-> {}, isDragging |-> FALSE]

\* -------------------------------------------------------- checkMolecules
AtomById(as, id) == as[FirstIndex({i \in DOMAIN as : as[i].id = id})]

\* mutant: only the bonds that have the atom as atom1Id are followed
RECURSIVE Neighbors_Forward(_, _)
Neighbors_Forward(bs, id) ==
  IF bs = <<>> THEN <<>>
  ELSE LET b == Head(bs)
           rest == Neighbors_Forward(Tail(bs), id)
       IN IF b.atom1Id = id THEN <<b.atom2Id>> \o rest ELSE rest

\* the ids at the other end of the bonds of atom id, in bond order
RECURSIVE Neighbors(_, _)
Neighbors(bs, id) ==
  IF bs = <<>> THEN <<>>
  ELSE LET b == Head(bs)
           rest == Neighbors(Tail(bs), id)
       IN IF b.atom1Id = id \/ b.atom2Id = id
          THEN <<IF b.atom1Id = id THEN b.atom2Id ELSE b.atom1Id>> \o rest
          ELSE rest

\* for (const nid of neighbors): enqueue the existing, unvisited ones
RECURSIVE Enqueue(_, _, _, _)
Enqueue(nids, visited, queue, as) ==
  IF nids = <<>> THEN [visited |-> visited, queue |-> queue]
  ELSE LET nid == Head(nids)
       IN IF nid \in Ids(as) /\ nid \notin visited
          THEN Enqueue(Tail(nids), visited \cup {nid}, Append(queue, nid), as)
          ELSE Enqueue(Tail(nids), visited, queue, as)

\* while (queue.length > 0): the component, in the order it is discovered
RECURSIVE BFS(_, _, _, _, _)
BFS(queue, visited, component, as, bs) ==
  IF queue = <<>> THEN [component |-> component, visited |-> visited]
  ELSE LET current == Head(queue)
           e == Enqueue(Neighbors(bs, current), visited, Tail(queue), as)
       IN BFS(e.queue, e.visited, Append(component, current), as, bs)

\* mutant: one saturated member is enough
isStable_Some(component, as) ==
  \E i \in DOMAIN component :
    AtomById(as, component[i]).currentBonds = Valency(AtomById(as, component[i]))

\* isStable: no member of the component has currentBonds !== valency
isStable(component, as) ==
  \A i \in DOMAIN component :
    AtomById(as, component[i]).currentBonds = Valency(AtomById(as, component[i]))

\* mutant: a component of two atoms is not reported
Reported_Large(component, as) == isStable(component, as) /\ Len(component) > 2

\* if (isStable && component.length > 1)
Reported(component, as) == isStable(component, as) /\ Len(component) > 1

\* composition[a.type] = (composition[a.type] || 0) + 1
Composition(component, as) ==
  LET ts == {AtomById(as, component[i]).type : i \in DOMAIN component}
  IN [t \in ts |->
        Cardinality({i \in DOMAIN component : AtomById(as, component[i]).type = t})]

\* for (const atom of atomsRef.current): the stable components, in order
RECURSIVE Scan(_, _, _, _, _)
Scan(i, visited, found, as, bs) ==
  IF i > Len(as) THEN found
  ELSE IF as[i].id \in visited THEN Scan(i + 1, visited, found, as, bs)
  ELSE LET r == BFS(<<as[i].id>>, visited \cup {as[i].id}, <<>>, as, bs)
       IN Scan(i + 1, r.visited,
               IF Reported(r.component, as) THEN Append(found, r.component) ELSE found,
               as, bs)

\* mutant: only the atom a component was entered by is marked for removal
ToRemove_First(found) == {found[k][1] : k \in DOMAIN found}

\* toRemoveAtoms
ToRemove(found) == UNION {Range(found[k]) : k \in DOMAIN found}

\* mutant: the bonds of removed atoms are kept
BondSurvives_Always(b, gone) == TRUE

\* !toRemoveAtoms.includes(b.atom1Id) && !toRemoveAtoms.includes(b.atom2Id)
BondSurvives(b, gone) == b.atom1Id \notin gone /\ b.atom2Id \notin gone

\* mutant: the dragged atom stays recorded when it is removed
checkMolecules_KeepsDragged(as, bs, dragged) ==
  LET found == Scan(1, {}, <<>>, as, bs)
      gone == ToRemove(found)
  IN [atoms |-> SelectSeq(as, LAMBDA a : a.id \notin gone),
      bonds |-> SelectSeq(bs, LAMBDA b : BondSurvives(b, gone)),
      dragged |-> dragged,
      reported |-> found,
      scores |-> [k \in DOMAIN found |-> Len(found[k]) * SCORE_PER_ATOM],
      compositions |-> [k \in DOMAIN found |-> Composition(found[k], as)]]

\* the store, the events and the lookups that checkMolecules leaves
checkMolecules(as, bs, dragged) ==
  LET found == Scan(1, {}, <<>>, as, bs)
      gone == ToRemove(found)
  IN [atoms |-> SelectSeq(as, LAMBDA a : a.id \notin gone),
      bonds |-> SelectSeq(bs, LAMBDA b : BondSurvives(b, gone)),
      dragged |-> IF dragged # Null /\ dragged \in gone THEN Null ELSE dragged,
      reported |-> found,
      scores |-> [k \in DOMAIN found |-> Len(found[k]) * SCORE_PER_ATOM],
      compositions |-> [k \in DOMAIN found |-> Composition(found[k], as)]]

\* what the bond attempt and the scan read of the atoms: no velocities
ScanView(as) ==
  [i \in DOMAIN as |->
     [id |-> as[i].id, type |-> as[i].type, currentBonds |-> as[i].currentBonds,
      x |-> as[i].x]]

Init ==
  /\ gameActive = FALSE
  /\ atoms = <<>>
  /\ bonds = <<>>
  /\ bondHistory = <<>>
  /\ particles = NoParticles
  /\ lastSpawnAge = 1600
  /\ draggedAtom = Null
  /\ mouse = 0
  /\ dragSession = {}
  /\ nextAtomId = 1
  /\ nextBondId = 1
  /\ lookups = <<>>
  /\ gestureBonds = {}
  /\ historyFloor = 1
  /\ last = NoLast("init")

\* ---------------------------------------------------------------- update
\* the positions between an atom's own and the pointer's, both included
Between(x, m) == {p \in Pos : (x <= p /\ p <= m) \/ (m <= p /\ p <= x)}

\* the positions the force integration can leave the atoms at
RECURSIVE Moves(_, _)
Moves(as, m) ==
  IF as = <<>> THEN {<<>>}
  ELSE LET a == as[Len(as)]
       IN {Append(front, p) :
             front \in Moves(SubSeq(as, 1, Len(as) - 1), m),
             p \in IF a.isDragging THEN Between(a.x, m) ELSE Pos}

\* steps 2 and 3: atom.x += atom.vx, for every atom
Physics(as, nx) == [i \in DOMAIN as |-> [as[i] EXCEPT !.x = nx[i]]]

\* mutant: the capacity of the dragged atom is not looked at
DraggerHasCapacity_Always(dragger) == TRUE

\* if (dragger.currentBonds < draggerDef.valency)
DraggerHasCapacity(dragger) == dragger.currentBonds < Valency(dragger)

\* mutant: the capacity of the target is not looked at
TargetIsFull_Never(target) == FALSE

\* if (target.currentBonds >= targetDef.valency) return false
TargetIsFull(target) == target.currentBonds >= Valency(target)

\* mutant: the session set is not consulted
bondedInThisSession_Never(session, a, b) == FALSE

\* dragSessionBondedPairsRef.current.has(pairKey)
bondedInThisSession(session, a, b) == PairKey(a, b) \in session

\* the callback of atomsRef.current.find(target => ...)
IsCandidate(dragger, target, session) ==
  /\ target.id # dragger.id
  /\ ~TargetIsFull(target)
  /\ Within(dragger.x, target.x, BOND_DISTANCE + 10)
  /\ ~bondedInThisSession(session, dragger.id, target.id)

\* mutant: the dragger is the first atom that has its drag flag set
DraggerIndex_Flag(as, dragged) == FirstIndex({i \in DOMAIN as : as[i].isDragging})

\* the index of the dragged atom, 0 when there is none
DraggerIndex(as, dragged) ==
  IF dragged = Null THEN 0 ELSE FirstIndex({i \in DOMAIN as : as[i].id = dragged})

\* the index of the neighbor the bond attempt picks, 0 when it picks none
NeighborIndex(as, dragged, session) ==
  LET d == DraggerIndex(as, dragged)
  IN IF d = 0 THEN 0
     ELSE IF ~DraggerHasCapacity(as[d]) THEN 0
     ELSE FirstIndex({i \in DOMAIN as : IsCandidate(as[d], as[i], session)})

\* mutant: the pair is not put into the session set
SessionAdd_Forget(session, a, b) == session

\* dragSessionBondedPairsRef.current.add(pairKey)
SessionAdd(session, a, b) == session \cup {PairKey(a, b)}

\* bondsRef.current.push({id, atom1Id, atom2Id})
NewBond(id, draggerId, neighborId) ==
  [id |-> id, atom1Id |-> draggerId, atom2Id |-> neighborId]

\* mutant: the history is started again with the new id
Record_Fresh(hist, bondId) == <<bondId>>

\* mutant: the id is put in front of the history
Record_Prepend(hist, bondId) == <<bondId>> \o hist

\* bondHistoryRef.current.push(bondId)
Record(hist, bondId) == Append(hist, bondId)

\* mutant: only the dragger's count is incremented
Bump_DraggerOnly(as, d, n) == [as EXCEPT ![d].currentBonds = @ + 1]

\* dragger.currentBonds++; neighbor.currentBonds++
Bump(as, d, n) ==
  LET once == [as EXCEPT ![d].currentBonds = @ + 1]
  IN [once EXCEPT ![n].currentBonds = @ + 1]

\* ghost: the pairs of a set whose two atoms are both still in the store
Alive(pairs, as) == {k \in pairs : k[1] \in Ids(as) /\ k[2] \in Ids(as)}

\* the store a bond attempt leaves, before the stability scan
BondAttempt(as, bs, dragged, session, bondId) ==
  LET d == DraggerIndex(as, dragged)
      n == NeighborIndex(as, dragged, session)
  IN IF n = 0
     THEN [made |-> FALSE, atoms |-> as, bonds |-> bs, session |-> session]
     ELSE [made |-> TRUE,
           atoms |-> Bump(as, d, n),
           bonds |-> Append(bs, NewBond(bondId, as[d].id, as[n].id)),
           session |-> SessionAdd(session, as[d].id, as[n].id),
           bond |-> NewBond(bondId, as[d].id, as[n].id)]

\* steps 2 to 6 of update on the atoms a1: forces and integration, the bond
\* attempt, the stability scan when a bond was made, the particles
Frame(a1, bondCap) ==
  \E nx \in Moves(a1, mouse) :
  \E ba \in {BondAttempt(Physics(a1, nx), bonds, draggedAtom, dragSession, nextBondId)} :
    IF ba.made
    THEN \E cm \in {checkMolecules(ba.atoms, ba.bonds, draggedAtom)} :
           /\ nextBondId <= bondCap
           /\ nextBondId' = nextBondId + 1
           /\ dragSession' = ba.session
           /\ gestureBonds' =
                Alive(gestureBonds \cup {PairKey(ba.bond.atom1Id, ba.bond.atom2Id)},
                      cm.atoms)
           /\ bondHistory' = Record(bondHistory, ba.bond.id)
           /\ atoms' = cm.atoms
           /\ bonds' = cm.bonds
           /\ draggedAtom' = cm.dragged
           /\ lookups' = lookups \o cm.compositions
           /\ particles' = Age(createExplosion(particles))
           /\ last' = [NoLast("tick") EXCEPT !.created = <<ba.bond>>,
                                             !.scanAtoms = ScanView(ba.atoms),
                                             !.scanBonds = ba.bonds,
                                             !.reported = cm.reported,
                                             !.scores = cm.scores]
    ELSE /\ atoms' = ba.atoms
         /\ particles' = Age(particles)
         /\ last' = Quiet
         /\ UNCHANGED <<nextBondId, dragSession, gestureBonds, bondHistory,
                        bonds, draggedAtom, lookups>>

\* mutant: the population is not looked at
ShouldSpawn_NoCap(age, as) == age > SPAWN_MS

\* mutant: the time since the last spawn is not looked at
ShouldSpawn_NoWait(age, as) == Len(as) < POPULATION_CAP

\* if (time - lastSpawnRef.current > 1500 && atomsRef.current.length < 18)
ShouldSpawn(age, as) == age > SPAWN_MS /\ Len(as) < POPULATION_CAP

\* one call of update, dt ms after the last one, while atom ids up to atomCap
\* and bond ids up to bondCap are left
update(dt, ty, sx, atomCap, bondCap) ==
  /\ gameActive
  /\ LET age == Min(lastSpawnAge + dt, 1600)
         spawn == ShouldSpawn(age, atoms)
         a1 == IF spawn THEN Append(atoms, spawnAtom(nextAtomId, ty, sx)) ELSE atoms
     IN /\ spawn => nextAtomId <= atomCap
        /\ ~spawn => (ty = types[1] /\ sx = 0)
        /\ nextAtomId' = IF spawn THEN nextAtomId + 1 ELSE nextAtomId
        /\ lastSpawnAge' = IF spawn THEN 0 ELSE age
        /\ Frame(a1, bondCap)
  /\ UNCHANGED <<gameActive, mouse, historyFloor>>

Tick(dt, ty, sx) == update(dt, ty, sx, MaxAtomId, MaxBondId)

\* ------------------------------------------------------------------ undo
\* a.currentBonds = Math.max(0, a.currentBonds - 1), for the atom with this id
Decrement(as, id) ==
  [i \in DOMAIN as |->
     IF i = FirstIndex({k \in DOMAIN as : as[k].id = id})
     THEN [as[i] EXCEPT !.currentBonds = IF @ - 1 > 0 THEN @ - 1 ELSE 0]
     ELSE as[i]]

\* bondsRef.current.splice(bondIndex, 1)
Splice(bs, k) == SubSeq(bs, 1, k - 1) \o SubSeq(bs, k + 1, Len(bs))

\* mutant: the oldest recorded id is taken instead of the newest
RECURSIVE undo_Oldest(_, _, _)
undo_Oldest(hist, as, bs) ==
  IF hist = <<>>
  THEN [history |-> hist, atoms |-> as, bonds |-> bs, undone |-> <<>>, spark |-> FALSE,
        popped |-> <<>>]
  ELSE LET lastBondId == hist[1]
           popped == Tail(hist)
           bondIndex == FirstIndex({k \in DOMAIN bs : bs[k].id = lastBondId})
       IN IF bondIndex # 0
          THEN LET bond == bs[bondIndex]
               IN [history |-> popped,
                   atoms |-> Decrement(Decrement(as, bond.atom1Id), bond.atom2Id),
                   bonds |-> Splice(bs, bondIndex),
                   undone |-> <<bond>>,
                   spark |-> bond.atom1Id \in Ids(as) /\ bond.atom2Id \in Ids(as),
                   popped |-> <<lastBondId>>]
          ELSE LET r == undo_Oldest(popped, as, bs)
               IN [r EXCEPT !.popped = <<lastBondId>> \o @]

\* mutant: the loop gives up at the first id whose bond is gone
undo_OnePop(hist, as, bs) ==
  IF hist = <<>>
  THEN [history |-> hist, atoms |-> as, bonds |-> bs, undone |-> <<>>, spark |-> FALSE,
        popped |-> <<>>]
  ELSE LET lastBondId == hist[Len(hist)]
           popped == SubSeq(hist, 1, Len(hist) - 1)
           bondIndex == FirstIndex({k \in DOMAIN bs : bs[k].id = lastBondId})
       IN IF bondIndex # 0
          THEN LET bond == bs[bondIndex]
               IN [history |-> popped,
                   atoms |-> Decrement(Decrement(as, bond.atom1Id), bond.atom2Id),
                   bonds |-> Splice(bs, bondIndex),
                   undone |-> <<bond>>,
                   spark |-> bond.atom1Id \in Ids(as) /\ bond.atom2Id \in Ids(as),
                   popped |-> <<lastBondId>>]
          ELSE [history |-> popped, atoms |-> as, bonds |-> bs, undone |-> <<>>,
                spark |-> FALSE, popped |-> <<lastBondId>>]

\* mutant: the bond found is left in the store
RECURSIVE undo_KeepsBond(_, _, _)
undo_KeepsBond(hist, as, bs) ==
  IF hist = <<>>
  THEN [history |-> hist, atoms |-> as, bonds |-> bs, undone |-> <<>>, spark |-> FALSE,
        popped |-> <<>>]
  ELSE LET lastBondId == hist[Len(hist)]
           popped == SubSeq(hist, 1, Len(hist) - 1)
           bondIndex == FirstIndex({k \in DOMAIN bs : bs[k].id = lastBondId})
       IN IF bondIndex # 0
          THEN LET bond == bs[bondIndex]
               IN [history |-> popped,
                   atoms |-> Decrement(Decrement(as, bond.atom1Id), bond.atom2Id),
                   bonds |-> bs,
                   undone |-> <<bond>>,
                   spark |-> bond.atom1Id \in Ids(as) /\ bond.atom2Id \in Ids(as),
                   popped |-> <<lastBondId>>]
          ELSE LET r == undo_KeepsBond(popped, as, bs)
               IN [r EXCEPT !.popped = <<lastBondId>> \o @]

\* mutant: the ids found stale are put back once an older bond is resolved
RECURSIVE undo_PutsBack(_, _, _)
undo_PutsBack(hist, as, bs) ==
  IF hist = <<>>
  THEN [history |-> hist, atoms |-> as, bonds |-> bs, undone |-> <<>>, spark |-> FALSE,
        popped |-> <<>>]
  ELSE LET lastBondId == hist[Len(hist)]
           popped == SubSeq(hist, 1, Len(hist) - 1)
           bondIndex == FirstIndex({k \in DOMAIN bs : bs[k].id = lastBondId})
       IN IF bondIndex # 0
          THEN LET bond == bs[bondIndex]
               IN [history |-> popped,
                   atoms |-> Decrement(Decrement(as, bond.atom1Id), bond.atom2Id),
                   bonds |-> Splice(bs, bondIndex),
                   undone |-> <<bond>>,
                   spark |-> bond.atom1Id \in Ids(as) /\ bond.atom2Id \in Ids(as),
                   popped |-> <<lastBondId>>]
          ELSE LET r == undo_PutsBack(popped, as, bs)
               IN [r EXCEPT !.popped = <<lastBondId>> \o @,
                            !.history = IF r.undone # <<>> THEN Append(@, lastBondId)
                                        ELSE @]

\* while (bondHistoryRef.current.length > 0) { pop ... }
RECURSIVE undo(_, _, _)
undo(hist, as, bs) ==
  IF hist = <<>>
  THEN [history |-> hist, atoms |-> as, bonds |-> bs, undone |-> <<>>, spark |-> FALSE,
        popped |-> <<>>]
  ELSE LET lastBondId == hist[Len(hist)]
           popped == SubSeq(hist, 1, Len(hist) - 1)
           bondIndex == FirstIndex({k \in DOMAIN bs : bs[k].id = lastBondId})
       IN IF bondIndex # 0
          THEN LET bond == bs[bondIndex]
               IN [history |-> popped,
                   atoms |-> Decrement(Decrement(as, bond.atom1Id), bond.atom2Id),
                   bonds |-> Splice(bs, bondIndex),
                   undone |-> <<bond>>,
                   spark |-> bond.atom1Id \in Ids(as) /\ bond.atom2Id \in Ids(as),
                   popped |-> <<lastBondId>>]
          ELSE LET r == undo(popped, as, bs)
               IN [r EXCEPT !.popped = <<lastBondId>> \o @]

Undo ==
  \E u \in {undo(bondHistory, atoms, bonds)} :
     /\ bondHistory' = u.history
     /\ atoms' = u.atoms
     /\ bonds' = u.bonds
     /\ particles' = IF u.spark THEN createExplosion(particles) ELSE particles
     /\ last' = IF u.popped = <<>> THEN Quiet
                ELSE [NoLast("undo") EXCEPT !.undone = u.undone, !.popped = u.popped]
     /\ UNCHANGED <<gameActive, lastSpawnAge, draggedAtom, mouse, dragSession,
                    nextAtomId, nextBondId, lookups, gestureBonds, historyFloor>>

\* ------------------------------------------------------- pointer handlers
\* mutant: every atom counts as hit, wherever the pointer is
Hit_Anywhere(a, p) == TRUE

\* dx*dx + dy*dy < (ATOM_DEFS[a.type].radius + 10)**2
Hit(a, p) ==
  DistSq(a.x, p) < (ATOM_DEFS[a.type].radius + 10) * (ATOM_DEFS[a.type].radius + 10)

\* what handlePointerDown leaves of the atoms, the dragged atom and the
\* session set, and the velocities it assigns
handlePointerDown(as, dragged, session, p) ==
  LET clicked == FirstIndex({i \in DOMAIN as : Hit(as[i], p)})
  IN IF clicked # 0
     THEN [atoms |-> [as EXCEPT ![clicked].isDragging = TRUE],
           dragged |-> as[clicked].id,
           session |-> {},
           hit |-> as[clicked].id,
           vel |-> {<<as[clicked].id, "zero">>},
           errors |-> <<>>]
     ELSE [atoms |-> as, dragged |-> dragged, session |-> session, hit |-> Null,
           vel |-> {}, errors |-> <<>>]

PointerDown(p) ==
  \E h \in {handlePointerDown(atoms, draggedAtom, dragSession, p)} :
     /\ mouse' = p
     /\ draggedAtom' = h.dragged
     /\ atoms' = h.atoms
     /\ dragSession' = h.session
     /\ gestureBonds' = IF h.hit # Null THEN {} ELSE gestureBonds
     /\ last' = IF h.hit # Null
                THEN [NoLast("down") EXCEPT !.hit = h.hit, !.vel = h.vel]
                ELSE Quiet
     /\ UNCHANGED <<gameActive, bonds, bondHistory, particles, lastSpawnAge,
                    nextAtomId, nextBondId, lookups, historyFloor>>

PointerMove(p) ==
  /\ mouse' = p
  /\ last' = Quiet
  /\ UNCHANGED <<gameActive, atoms, bonds, bondHistory, particles, lastSpawnAge,
                 draggedAtom, dragSession, nextAtomId, nextBondId, lookups,
                 gestureBonds, historyFloor>>

\* the callback of the find in handlePointerUp: dist < BOND_DISTANCE + 20
IsNearby(atom, target) ==
  /\ target.id # atom.id
  /\ Within(atom.x, target.x, BOND_DISTANCE + 20)

\* the index of the atom handlePointerUp calls nearby, 0 when there is none
NearbyIndex(as, i) == FirstIndex({k \in DOMAIN as : IsNearby(as[i], as[k])})

\* mutant: the released atom is looked at before the nearby one
Hint_ReleasedFirst(atom, nearby) ==
  IF Valency(atom) = atom.currentBonds
  THEN <<ATOM_DEFS[atom.type].symbol, " is full!">>
  ELSE IF Valency(nearby) = nearby.currentBonds
  THEN <<ATOM_DEFS[nearby.type].symbol, " is full! (Max ", Valency(nearby), ")">>
  ELSE <<"Bond blocked or invalid!">>

\* the hint logic: the message handed to onError
Hint(atom, nearby) ==
  IF Valency(nearby) = nearby.currentBonds
  THEN <<ATOM_DEFS[nearby.type].symbol, " is full! (Max ", Valency(nearby), ")">>
  ELSE IF Valency(atom) = atom.currentBonds
  THEN <<ATOM_DEFS[atom.type].symbol, " is full!">>
  ELSE <<"Bond blocked or invalid!">>

\* mutant: the bond between the two atoms is not looked for
handlePointerUp_AlwaysShatters(as, bs, dragged) ==
  LET i == DraggerIndex(as, dragged)
      n == IF i = 0 THEN 0 ELSE NearbyIndex(as, i)
      shatter == i # 0 /\ n # 0
  IN [atoms |-> IF i = 0 THEN as ELSE [as EXCEPT ![i].isDragging = FALSE],
      dragged |-> Null,
      released |-> IF i = 0 THEN Null ELSE as[i].id,
      nearby |-> IF i = 0 \/ n = 0 THEN Null ELSE as[n].id,
      shatter |-> shatter,
      vel |-> IF i = 0 \/ n = 0 THEN {}
              ELSE IF shatter THEN {<<as[i].id, "recoil">>, <<as[n].id, "pushed">>}
              ELSE {<<as[i].id, "nudge">>},
      errors |-> IF shatter THEN <<Hint(as[i], as[n])>> ELSE <<>>]

\* mutant: the drag flag of every atom is cleared
handlePointerUp_ClearsAll(as, bs, dragged) ==
  LET i == DraggerIndex(as, dragged)
      n == IF i = 0 THEN 0 ELSE NearbyIndex(as, i)
      shatter == i # 0 /\ n # 0 /\ ~IsBonded(bs, as[i].id, as[n].id)
  IN [atoms |-> IF i = 0 THEN as
                ELSE [k \in DOMAIN as |-> [as[k] EXCEPT !.isDragging = FALSE]],
      dragged |-> Null,
      released |-> IF i = 0 THEN Null ELSE as[i].id,
      nearby |-> IF i = 0 \/ n = 0 THEN Null ELSE as[n].id,
      shatter |-> shatter,
      vel |-> IF i = 0 \/ n = 0 THEN {}
              ELSE IF shatter THEN {<<as[i].id, "recoil">>, <<as[n].id, "pushed">>}
              ELSE {<<as[i].id, "nudge">>},
      errors |-> IF shatter THEN <<Hint(as[i], as[n])>> ELSE <<>>]

\* mutant: the dragged atom is not forgotten at the end of the handler
handlePointerUp_KeepsDragged(as, bs, dragged) ==
  LET i == DraggerIndex(as, dragged)
      n == IF i = 0 THEN 0 ELSE NearbyIndex(as, i)
      shatter == i # 0 /\ n # 0 /\ ~IsBonded(bs, as[i].id, as[n].id)
  IN [atoms |-> IF i = 0 THEN as ELSE [as EXCEPT ![i].isDragging = FALSE],
      dragged |-> dragged,
      released |-> IF i = 0 THEN Null ELSE as[i].id,
      nearby |-> IF i = 0 \/ n = 0 THEN Null ELSE as[n].id,
      shatter |-> shatter,
      vel |-> IF i = 0 \/ n = 0 THEN {}
              ELSE IF shatter THEN {<<as[i].id, "recoil">>, <<as[n].id, "pushed">>}
              ELSE {<<as[i].id, "nudge">>},
      errors |-> IF shatter THEN <<Hint(as[i], as[n])>> ELSE <<>>]

\* what handlePointerUp leaves of the atoms and the dragged atom, the
\* velocities it assigns and the errors it reports
handlePointerUp(as, bs, dragged) ==
  LET i == DraggerIndex(as, dragged)
      n == IF i = 0 THEN 0 ELSE NearbyIndex(as, i)
      shatter == i # 0 /\ n # 0 /\ ~IsBonded(bs, as[i].id, as[n].id)
  IN [atoms |-> IF i = 0 THEN as ELSE [as EXCEPT ![i].isDragging = FALSE],
      dragged |-> Null,
      released |-> IF i = 0 THEN Null ELSE as[i].id,
      nearby |-> IF i = 0 \/ n = 0 THEN Null ELSE as[n].id,
      shatter |-> shatter,
      vel |-> IF i = 0 \/ n = 0 THEN {}
              ELSE IF shatter THEN {<<as[i].id, "recoil">>, <<as[n].id, "pushed">>}
              ELSE {<<as[i].id, "nudge">>},
      errors |-> IF shatter THEN <<Hint(as[i], as[n])>> ELSE <<>>]

PointerUp ==
  \E h \in {handlePointerUp(atoms, bonds, draggedAtom)} :
     /\ draggedAtom' = h.dragged
     /\ atoms' = h.atoms
     /\ particles' = IF h.shatter THEN createExplosion(particles) ELSE particles
     /\ last' = IF draggedAtom = Null THEN Quiet ELSE
                [NoLast("up") EXCEPT !.released = h.released, !.nearby = h.nearby,
                                     !.vel = h.vel, !.errors = h.errors]
     /\ UNCHANGED <<gameActive, bonds, bondHistory, lastSpawnAge, mouse, dragSession,
                    nextAtomId, nextBondId, lookups, gestureBonds, historyFloor>>

\* ------------------------------------------------------- session effects
StartGame ==
  /\ ~gameActive
  /\ gameActive' = TRUE
  /\ last' = Quiet
  /\ UNCHANGED <<atoms, bonds, bondHistory, particles, lastSpawnAge, draggedAtom,
                 mouse, dragSession, nextAtomId, nextBondId, lookups, gestureBonds,
                 historyFloor>>

\* mutant: the reset effect forgets the undo history
Reset_KeepsHistory ==
  /\ gameActive
  /\ gameActive' = FALSE
  /\ atoms' = <<>>
  /\ bonds' = <<>>
  /\ particles' = NoParticles
  /\ dragSession' = {}
  /\ historyFloor' = nextBondId
  /\ last' = NoLast("reset")
  /\ gestureBonds' = {}
  /\ UNCHANGED <<bondHistory, lastSpawnAge, draggedAtom, mouse, nextAtomId, nextBondId,
                 lookups>>

\* the game session stops: the reset effect runs
Reset ==
  /\ gameActive
  /\ gameActive' = FALSE
  /\ atoms' = <<>>
  /\ bonds' = <<>>
  /\ particles' = NoParticles
  /\ bondHistory' = <<>>
  /\ dragSession' = {}
  /\ historyFloor' = nextBondId
  /\ last' = NoLast("reset")
  /\ gestureBonds' = {}
  /\ UNCHANGED <<lastSpawnAge, draggedAtom, mouse, nextAtomId, nextBondId, lookups>>

\* ---------------------------------------------- identifyMoleculeWithGemini
Outcomes == {"success", "fallback", "empty"}

\* mutant: the callback of the lookup also lets go of the dragged atom
LookupSettles_Releases(k, outcome) ==
  /\ k \in DOMAIN lookups
  /\ lookups' = Splice(lookups, k)
  /\ draggedAtom' = Null
  /\ last' = [NoLast("lookup") EXCEPT
                !.formed = IF outcome = "empty" THEN <<>>
                           ELSE <<[composition |-> lookups[k], result |-> outcome]>>]
  /\ UNCHANGED <<gameActive, atoms, bonds, bondHistory, particles, lastSpawnAge,
                 mouse, dragSession, nextAtomId, nextBondId, gestureBonds, historyFloor>>

\* the promise of lookup k settles; then(res => { if (res) onMoleculeFormed(res) })
LookupSettles(k, outcome) ==
  /\ k \in DOMAIN lookups
  /\ lookups' = Splice(lookups, k)
  /\ last' = [NoLast("lookup") EXCEPT
                !.formed = IF outcome = "empty" THEN <<>>
                           ELSE <<[composition |-> lookups[k], result |-> outcome]>>]
  /\ UNCHANGED <<gameActive, atoms, bonds, bondHistory, particles, lastSpawnAge,
                 draggedAtom, mouse, dragSession, nextAtomId, nextBondId,
                 gestureBonds, historyFloor>>

Next ==
  \/ \E dt \in Dts, ty \in SpawnTypes, sx \in Pos : Tick(dt, ty, sx)
  \/ Undo
  \/ \E p \in Pos : PointerDown(p)
  \/ \E p \in Pos : PointerMove(p)
  \/ PointerUp
  \/ StartGame
  \/ Reset
  \/ \E k \in 1..2, outcome \in Outcomes : LookupSettles(k, outcome)

Spec == Init /\ [][Next]_vars

\* ------------------------------------------- stores for the stability scan
\* the number of bonds of the list that have the atom as an endpoint
Degree(bs, id) ==
  Cardinality({i \in DOMAIN bs : bs[i].atom1Id = id \/ bs[i].atom2Id = id})

\* the ids joined to one of the set by a chain of bonds, the set included
RECURSIVE Reach(_, _)
Reach(bs, set) ==
  LET more == set \cup {bs[i].atom2Id : i \in {j \in DOMAIN bs : bs[j].atom1Id \in set}}
                  \cup {bs[i].atom1Id : i \in {j \in DOMAIN bs : bs[j].atom2Id \in set}}
  IN IF more = set THEN set ELSE Reach(bs, more)

\* a store mid-game: atoms 1..ScanAtoms in spawn order, bonds 1..k in creation
\* order with the dragger of the time as atom1Id, every currentBonds the
\* number of bonds of the atom and within its valency, and no component left
\* that an earlier scan would have removed
ScanStore(ts, ends) ==
  LET bs == [k \in DOMAIN ends |->
               [id |-> k, atom1Id |-> ends[k][1], atom2Id |-> ends[k][2]]]
  IN [atoms |-> [i \in DOMAIN ts |->
                   [spawnAtom(i, ts[i], 0) EXCEPT !.currentBonds = Degree(bs, i)]],
      bonds |-> bs]

Unsaturated(a) == a.currentBonds < Valency(a)

IsMidGame(as, bs) ==
  /\ \A i \in DOMAIN as : as[i].currentBonds <= Valency(as[i])
  /\ \A i \in DOMAIN as :
       \E j \in DOMAIN as : as[j].id \in Reach(bs, {as[i].id}) /\ Unsaturated(as[j])

ScanEnds == {e \in (1..ScanAtoms) \X (1..ScanAtoms) : e[1] # e[2]}

\* the player has just pressed on atom d of such a store
ScanInit ==
  \E ts \in [1..ScanAtoms -> SpawnTypes] :
  \E ends \in UNION {[1..k -> ScanEnds] : k \in 0..ScanBonds} :
  \E st \in {ScanStore(ts, ends)} :
  \E d \in 1..ScanAtoms :
     /\ IsMidGame(st.atoms, st.bonds)
     /\ gameActive = TRUE
     /\ atoms = [st.atoms EXCEPT ![d].isDragging = TRUE]
     /\ bonds = st.bonds
     /\ bondHistory = [k \in DOMAIN ends |-> k]
     /\ particles = NoParticles
     /\ lastSpawnAge = 0
     /\ draggedAtom = d
     /\ mouse = 0
     /\ dragSession = {}
     /\ nextAtomId = ScanAtoms + 1
     /\ nextBondId = Len(ends) + 1
     /\ lookups = <<>>
     /\ gestureBonds = {}
     /\ historyFloor = 1
     /\ last = NoLast("store")

\* the next frame, less than 1500 ms after the last spawn
ScanTick ==
  /\ last.op = "store"
  /\ gameActive
  /\ ~(lastSpawnAge > SPAWN_MS /\ Len(atoms) < POPULATION_CAP)
  /\ Frame(atoms, ScanBonds + 1)
  /\ UNCHANGED <<gameActive, mouse, historyFloor, nextAtomId, lastSpawnAge>>

ScanNext == ScanTick

ScanSpec == ScanInit /\ [][ScanNext]_vars

\* ------------------------------------------------------- stores for undo
\* the members of a set of numbers, in increasing order
RECURSIVE Ascending(_)
Ascending(set) ==
  IF set = {} THEN <<>>
  ELSE LET least == CHOOSE m \in set : \A o \in set : m <= o
       IN <<least>> \o Ascending(set \ {least})

\* a store mid-game whose live bonds have the ids of the set, in creation
\* order, every currentBonds the number of bonds of the atom
UndoStore(ts, live, ends) ==
  LET ids == Ascending(live)
      bs == [k \in DOMAIN ids |->
               [id |-> ids[k], atom1Id |-> ends[ids[k]][1], atom2Id |-> ends[ids[k]][2]]]
  IN [atoms |-> [i \in DOMAIN ts |->
                   [spawnAtom(i, ts[i], 0) EXCEPT !.currentBonds = Degree(bs, i)]],
      bonds |-> bs]

UndoEnds == {e \in (1..UndoAtoms) \X (1..UndoAtoms) : e[1] # e[2]}

\* a game in which bonds 1..UndoHist were made: the history holds the ids no
\* undo has popped, the store the bonds of these that no scan has removed
UndoInit ==
  \E ts \in [1..UndoAtoms -> SpawnTypes] :
  \E recorded \in SUBSET (1..UndoHist) :
  \E live \in SUBSET recorded :
  \E ends \in [live -> UndoEnds] :
  \E st \in {UndoStore(ts, live, ends)} :
     /\ IsMidGame(st.atoms, st.bonds)
     /\ gameActive = TRUE
     /\ atoms = st.atoms
     /\ bonds = st.bonds
     /\ bondHistory = Ascending(recorded)
     /\ particles = NoParticles
     /\ lastSpawnAge = 0
     /\ draggedAtom = Null
     /\ mouse = 0
     /\ dragSession = {}
     /\ nextAtomId = UndoAtoms + 1
     /\ nextBondId = UndoHist + 1
     /\ lookups = <<>>
     /\ gestureBonds = {}
     /\ historyFloor = 1
     /\ last = NoLast("store")

UndoNext == Undo

UndoSpec == UndoInit /\ [][UndoNext]_vars

\* --------------------------------------------------- stores for a release
\* the player presses on an atom of a mid-game store and lets go
ReleaseNext ==
  \/ \E p \in Pos : PointerDown(p)
  \/ PointerUp

ReleaseSpec == UndoInit /\ [][ReleaseNext]_vars

\* ------------------------------------------------- stores near the cap
\* the time between two calls of update in these games (ms)
SpawnDts == {0, 800}

\* a store of n atoms without bonds, all at the pointer: the first SpawnFree
\* were never pressed, the others were pressed one after the other with no
\* release in between, kept their drag flag and stay at the pointer
SpawnStore(n, ts) ==
  [i \in 1..n |->
     [spawnAtom(i, IF i <= SpawnFree THEN ts[i] ELSE types[1], 0)
        EXCEPT !.isDragging = i > SpawnFree]]

SpawnInit ==
  \E n \in {POPULATION_CAP - 1, POPULATION_CAP} :
  \E ts \in [1..SpawnFree -> SpawnTypes] :
  \E age \in {0, 800, 1600} :
     /\ gameActive = TRUE
     /\ atoms = SpawnStore(n, ts)
     /\ bonds = <<>>
     /\ bondHistory = <<>>
     /\ particles = NoParticles
     /\ lastSpawnAge = age
     /\ draggedAtom = Null
     /\ mouse = 0
     /\ dragSession = {}
     /\ nextAtomId = n + 1
     /\ nextBondId = 1
     /\ lookups = <<>>
     /\ gestureBonds = {}
     /\ historyFloor = 1
     /\ last = NoLast("store")

\* the frames that follow, with room for one more atom id than the cap
SpawnTick ==
  \E dt \in SpawnDts, ty \in SpawnTypes, sx \in Pos :
    update(dt, ty, sx, POPULATION_CAP + 1, MaxBondId)

SpawnNext == SpawnTick

SpawnSpec == SpawnInit /\ [][SpawnNext]_vars

\* ================================================================ claims

RECURSIVE SumCurrentBonds(_)
SumCurrentBonds(as) ==
  IF as = <<>> THEN 0 ELSE Head(as).currentBonds + SumCurrentBonds(Tail(as))

\* the step created a bond
Created == last.created # <<>>

\* C1: every atom has 0 <= currentBonds <= valency of its type, and a tick
\* that creates a bond found both endpoints below their valency: in the
\* store the scan is given, one bond later, neither is above it.
C1_Capacity ==
  /\ \A i \in DOMAIN atoms :
       atoms[i].currentBonds >= 0 /\ atoms[i].currentBonds <= Valency(atoms[i])
  /\ Created =>
       \A i \in DOMAIN last.scanAtoms :
         LET a == last.scanAtoms[i]
         IN /\ a.currentBonds <= Valency(a)
            /\ a.id \in {last.created[1].atom1Id, last.created[1].atom2Id}
                 => a.currentBonds - 1 < Valency(a) /\ a.currentBonds >= 1

\* a bond was just created that filled an endpoint to its valency, and the
\* endpoint is still in the store
C1_Witness ==
  /\ Created
  /\ \E i \in DOMAIN atoms :
       /\ atoms[i].id = last.created[1].atom2Id
       /\ atoms[i].currentBonds = Valency(atoms[i])

\* C2: each atom's currentBonds is the number of Bond records that have it
\* as an endpoint, and the currentBonds add up to twice the number of bonds.
C2_BondCount ==
  /\ \A i \in DOMAIN atoms : atoms[i].currentBonds = Degree(bonds, atoms[i].id)
  /\ SumCurrentBonds(atoms) = 2 * Len(bonds)

\* an undo removed a bond and another bond is left
C2_Witness == last.op = "undo" /\ last.undone # <<>> /\ bonds # <<>>

\* C3: every bond joins two distinct atoms that are both in the store.
C3_BondEndpoints ==
  \A i \in DOMAIN bonds :
    /\ bonds[i].atom1Id # bonds[i].atom2Id
    /\ bonds[i].atom1Id \in Ids(atoms)
    /\ bonds[i].atom2Id \in Ids(atoms)

\* the scan removed a stable component and left an atom behind
C3_Witness == Created /\ last.reported # <<>> /\ atoms # <<>>

\* C4: within one gesture no bond is created between a pair of atoms that
\* already bonded in that gesture.
C4_SessionGating ==
  [][nextBondId' # nextBondId =>
       PairKey(last'.created[1].atom1Id, last'.created[1].atom2Id) \notin gestureBonds]_vars

\* a pair bonded in this gesture, is still within bonding distance with spare
\* capacity on both sides, the explosion of the bond has aged away in later
\* ticks, and no further bond came
C4_Witness ==
  /\ draggedAtom # Null
  /\ ~Created
  /\ particles = NoParticles
  /\ \E i, j \in DOMAIN atoms :
       /\ atoms[i].id = draggedAtom
       /\ PairKey(atoms[i].id, atoms[j].id) \in gestureBonds
       /\ IsBonded(bonds, atoms[i].id, atoms[j].id)
       /\ Within(atoms[i].x, atoms[j].x, BOND_DISTANCE + 10)
       /\ atoms[i].currentBonds < Valency(atoms[i])
       /\ atoms[j].currentBonds < Valency(atoms[j])

\* the atom of the scanned store with this id
Scanned(id) ==
  last.scanAtoms[FirstIndex({i \in DOMAIN last.scanAtoms : last.scanAtoms[i].id = id})]

\* the bonds of a list that have no endpoint in the set
Clear(bs, gone) == SelectSeq(bs, LAMBDA b : b.atom1Id \notin gone /\ b.atom2Id \notin gone)

\* a saturated atom of the given valency
IsFull(a, valency) == Valency(a) = valency /\ a.currentBonds = valency

\* in the scanned store, atoms h1 and h2 of valency 1 are each bonded once to
\* atom o of valency 2, and all three are saturated
IsWater(o, h1, h2) ==
  /\ IsFull(o, 2)
  /\ IsFull(h1, 1) /\ h1.id # o.id /\ IsBonded(last.scanBonds, o.id, h1.id)
  /\ IsFull(h2, 1) /\ h2.id # o.id /\ IsBonded(last.scanBonds, o.id, h2.id)
  /\ h1.id # h2.id

\* C5: when the scan is given a store in which two valency-1 atoms are each
\* bonded once to the same valency-2 atom, all three saturated, it reports
\* exactly one stable component, those three atoms, scores 300 for it, and
\* leaves the store without the three atoms and their two bonds and with
\* every other atom and bond as it was.
C5_WaterRemoved ==
  Created =>
    \A o \in Range(last.scanAtoms) : IsFull(o, 2) =>
    \A h1 \in Range(last.scanAtoms) : IsFull(h1, 1) =>
    \A h2 \in Range(last.scanAtoms) :
      IsWater(o, h1, h2) =>
        /\ Len(last.reported) = 1
        /\ Len(last.reported[1]) = 3
        /\ Range(last.reported[1]) = {o.id, h1.id, h2.id}
        /\ last.scores = <<3 * SCORE_PER_ATOM>>
        /\ ScanView(atoms) =
             SelectSeq(last.scanAtoms, LAMBDA a : a.id \notin {o.id, h1.id, h2.id})
        /\ bonds = Clear(last.scanBonds, {o.id, h1.id, h2.id})
        /\ Len(bonds) = Len(last.scanBonds) - 2

\* the scan was given H-O-H next to a bonded pair with spare capacity, and
\* the pair and its bond are what is left
C5_Witness ==
  /\ Created
  /\ \E o, h1, h2 \in Range(last.scanAtoms) : IsWater(o, h1, h2)
  /\ Len(atoms) = ScanAtoms - 3
  /\ Len(bonds) = 1

\* the ids of the scanned store joined by bonds to an atom with spare
\* capacity, those atoms included
JoinedToSpare ==
  Reach(last.scanBonds, {a.id : a \in {u \in Range(last.scanAtoms) : Unsaturated(u)}})

\* C6: the components the scan reports have more than one atom and only
\* saturated atoms; an atom joined by bonds to an atom with spare capacity
\* (itself included) is in no reported component and is still in the store
\* with all its bonds; and there is one score and one lookup per reported
\* component, so none for any other.
C6_NonStability ==
  Created =>
    /\ \A k \in DOMAIN last.reported :
         /\ Len(last.reported[k]) > 1
         /\ \A id \in Range(last.reported[k]) : ~Unsaturated(Scanned(id))
    /\ \A spare \in {JoinedToSpare} :
         /\ \A k \in DOMAIN last.reported : Range(last.reported[k]) \cap spare = {}
         /\ spare \subseteq Ids(atoms)
         /\ \A i \in DOMAIN last.scanBonds :
              (last.scanBonds[i].atom1Id \in spare \/ last.scanBonds[i].atom2Id \in spare)
                => last.scanBonds[i] \in Range(bonds)
    /\ Len(last.scores) = Len(last.reported)
    /\ Len(lookups) = Len(last.reported)

\* the scan was given a component of four atoms of which one had spare
\* capacity and three were saturated, next to an atom on its own, and removed
\* nothing
C6_Witness ==
  /\ Created
  /\ last.reported = <<>>
  /\ Len(atoms) = ScanAtoms
  /\ Cardinality({u \in Range(last.scanAtoms) : Unsaturated(u)}) = 2
  /\ \E a \in Range(last.scanAtoms) :
       /\ Unsaturated(a)
       /\ Cardinality(Reach(last.scanBonds, {a.id})) = 4

\* the ids of the bonds in the store
BondIds(bs) == {bs[i].id : i \in DOMAIN bs}

\* the step is a call of undo (the counters and the clock are looked at first
\* because they tell most other steps apart at once)
UndoStep ==
  /\ nextBondId' = nextBondId
  /\ nextAtomId' = nextAtomId
  /\ lastSpawnAge' = lastSpawnAge
  /\ mouse' = mouse
  /\ draggedAtom' = draggedAtom
  /\ gameActive' = gameActive
  /\ Undo

\* C7: when the store holds a bond, undo removes exactly the bond created
\* last (the last of the bond list, which has the largest id), takes 1 off
\* the currentBonds of each of its two endpoints, and leaves every other
\* bond, every other atom and the list of atoms as they were.
C7_UndoLatest ==
  [][bonds # <<>> /\ UndoStep =>
       LET b == bonds[Len(bonds)]
       IN /\ \A k \in DOMAIN bonds : bonds[k].id <= b.id
          /\ bonds' = SubSeq(bonds, 1, Len(bonds) - 1)
          /\ DOMAIN atoms' = DOMAIN atoms
          /\ \A i \in DOMAIN atoms :
               atoms'[i] =
                 IF atoms[i].id \in {b.atom1Id, b.atom2Id}
                 THEN [atoms[i] EXCEPT !.currentBonds = @ - 1]
                 ELSE atoms[i]]_vars

\* B1 and B2 were created and an undo has removed B2 and left B1
C7_Witness ==
  /\ last.op = "undo"
  /\ last.undone # <<>>
  /\ \E k \in DOMAIN bonds : bonds[k].id < last.undone[1].id

\* C8: an undo that finds the history empty, or every recorded id without a
\* bond in the store, changes no atom and no bond, starts no explosion,
\* emits no event and starts no lookup, and leaves the history empty.
C8_UndoExhausted ==
  [][(\A k \in DOMAIN bondHistory : bondHistory[k] \notin BondIds(bonds)) /\ UndoStep =>
       /\ atoms' = atoms
       /\ bonds' = bonds
       /\ bondHistory' = <<>>
       /\ particles' = particles
       /\ lookups' = lookups
       /\ last'.undone = <<>> /\ last'.created = <<>>
       /\ last'.scores = <<>> /\ last'.errors = <<>> /\ last'.formed = <<>>]_vars

\* an undo popped two ids whose bonds a stability removal had consumed, and
\* found no bond to remove
C8_Witness ==
  /\ last.op = "undo"
  /\ last.undone = <<>>
  /\ Len(last.popped) = 2
  /\ bondHistory = <<>>

\* C9: the history holds only ids of bonds created since the last reset, in
\* creation order and without repetition (ids are handed out in increasing
\* order), and a bond creation leaves its id as the last entry.
C9_History ==
  /\ \A k \in DOMAIN bondHistory :
       bondHistory[k] >= historyFloor /\ bondHistory[k] < nextBondId
  /\ \A j, k \in DOMAIN bondHistory : j < k => bondHistory[j] < bondHistory[k]
  /\ Created =>
       /\ bondHistory # <<>>
       /\ bondHistory[Len(bondHistory)] = last.created[1].id

\* a second bond was just created and recorded behind the first
C9_Witness == Created /\ Len(bondHistory) = 2

\* C10: a pointerUp that releases an atom within the rejection threshold of
\* another atom that shares no bond with it and is at full capacity emits
\* exactly one error event and creates no bond.
C10_RejectionDiagnostics ==
  (last.op = "up" /\ last.released # Null) =>
    \A i, j \in DOMAIN atoms :
      ( /\ atoms[i].id = last.released
        /\ atoms[j].id # atoms[i].id
        /\ Within(atoms[i].x, atoms[j].x, BOND_DISTANCE + 20)
        /\ ~IsBonded(bonds, atoms[i].id, atoms[j].id)
        /\ atoms[j].currentBonds = Valency(atoms[j]) )
      => Len(last.errors) = 1 /\ last.created = <<>>

\* the stable components of the scanned store: the sets of two or more atoms
\* joined by bonds, closed under bonds, whose atoms are all saturated
StableComponents ==
  {c \in {Reach(last.scanBonds, {a.id}) : a \in Range(last.scanAtoms)} :
     Cardinality(c) > 1 /\ \A id \in c : ~Unsaturated(Scanned(id))}

\* C11: a scan reports each stable component of the store it is given once
\* and nothing else, emits one score per reported component, of 100 times
\* its number of atoms, and leaves none of its atoms and none of the bonds
\* touching them in the store.
C11_ScorePerComponent ==
  Created =>
    /\ {Range(last.reported[k]) : k \in DOMAIN last.reported} = StableComponents
    /\ Len(last.reported) = Cardinality(StableComponents)
    /\ DOMAIN last.scores = DOMAIN last.reported
    /\ \A k \in DOMAIN last.reported :
         /\ Len(last.reported[k]) = Cardinality(Range(last.reported[k]))
         /\ last.scores[k] = SCORE_PER_ATOM * Cardinality(Range(last.reported[k]))
         /\ Range(last.reported[k]) \cap Ids(atoms) = {}
         /\ \A i \in DOMAIN bonds :
              /\ bonds[i].atom1Id \notin Range(last.reported[k])
              /\ bonds[i].atom2Id \notin Range(last.reported[k])

\* a scan reported a component of four atoms, scored 400 for it and left the
\* fifth atom
C11_Witness ==
  /\ Created
  /\ last.scores = <<4 * SCORE_PER_ATOM>>
  /\ Len(atoms) = ScanAtoms - 4

\* C12: when the lookup started for a removed component ends, whatever its
\* outcome, exactly one molecule-formed event is delivered for that component.
C12_MoleculeFormedDelivered ==
  last.op = "lookup" => Len(last.formed) = 1

\* some frame of the game
TickAny == \E dt \in Dts, ty \in SpawnTypes, sx \in Pos : Tick(dt, ty, sx)

\* a lookup is pending in a running game whose counters are within the bounds
PendingInGame ==
  /\ lookups # <<>>
  /\ gameActive
  /\ nextAtomId <= MaxAtomId
  /\ nextBondId <= MaxBondId

\* C13: the step in which a lookup ends changes nothing of the simulation
\* (atoms, bonds, undo history, session set, dragged atom, particles, pointer,
\* spawn clock, game flag), and a pending lookup does not keep the next frame
\* from running.
C13_LookupIsolated ==
  [][/\ Len(lookups') < Len(lookups) =>
          UNCHANGED <<atoms, bonds, bondHistory, dragSession, draggedAtom, particles,
                      mouse, lastSpawnAge, gameActive, nextAtomId, nextBondId>>
     /\ PendingInGame => ENABLED TickAny]_vars

\* a lookup ended while an atom was being dragged
C13_Witness ==
  /\ last.op = "lookup"
  /\ draggedAtom # Null
  /\ atoms # <<>>

\* C14: once the game session is inactive (at a reset, and until the next
\* session starts) the store holds no atoms and no bonds, the particle list
\* is empty, the undo history is empty and the session set is empty.
C14_ResetClears ==
  ~gameActive =>
    /\ atoms = <<>>
    /\ bonds = <<>>
    /\ particles = NoParticles
    /\ bondHistory = <<>>
    /\ dragSession = {}

\* a reset has just run on a store in which an atom was being dragged, after
\* a bond had been created
C14_Witness ==
  /\ last.op = "reset"
  /\ draggedAtom # Null
  /\ historyFloor > 1

\* the point is inside the hit-area of the atom: nearer to its centre than
\* its radius plus 10 pixels
InHitArea(a, p) ==
  LET d == IF a.x >= p THEN a.x - p ELSE p - a.x
  IN d < ATOM_DEFS[a.type].radius + 10

\* the step is a pointerDown at p
PointerDownStep(p) ==
  /\ mouse' = p
  /\ bonds' = bonds
  /\ nextAtomId' = nextAtomId
  /\ lastSpawnAge' = lastSpawnAge
  /\ particles' = particles
  /\ gameActive' = gameActive
  /\ PointerDown(p)

\* C15: a pointerDown inside the hit-area of some atom makes such an atom the
\* dragged atom, sets its drag flag, zeroes its velocity and empties the
\* session set, and changes no other atom; a pointerDown that hits no atom
\* leaves the dragged atom, the atoms with their drag flags, every velocity
\* and the session set as they were.
C15_PointerDown ==
  [][\A p \in Pos : PointerDownStep(p) =>
       IF \E i \in DOMAIN atoms : InHitArea(atoms[i], p)
       THEN \E i \in DOMAIN atoms :
              /\ InHitArea(atoms[i], p)
              /\ draggedAtom' = atoms[i].id
              /\ atoms' = [atoms EXCEPT ![i].isDragging = TRUE]
              /\ last'.vel = {<<atoms[i].id, "zero">>}
              /\ dragSession' = {}
       ELSE /\ draggedAtom' = draggedAtom
            /\ atoms' = atoms
            /\ last'.vel = {}
            /\ dragSession' = dragSession]_vars

\* a pointerDown has just picked an atom up in a store that holds a bond
C15_Witness ==
  /\ last.op = "down"
  /\ last.hit = draggedAtom
  /\ dragSession = {}
  /\ bonds # <<>>

\* C16: after a pointerUp no atom is being dragged: the dragged atom is
\* cleared and no atom of the store has its drag flag set.
C16_NothingDragged ==
  last.op = "up" =>
    /\ draggedAtom = Null
    /\ \A i \in DOMAIN atoms : ~atoms[i].isDragging

\* C17: restating an input changes nothing more.  Over every reachable store
\* and every point: a second pointerDown at the same point, or a second
\* pointerUp, leaves the atoms, the dragged atom and the session set as the
\* first left them and reports no error.  (Neither handler touches the bonds
\* or the undo history; pointerMove only stores the point it is given and the
\* reset only assigns empty lists.)
C17_Idempotent ==
  /\ \A p \in Pos :
       \A once \in {handlePointerDown(atoms, draggedAtom, dragSession, p)} :
       \A twice \in {handlePointerDown(once.atoms, once.dragged, once.session, p)} :
         /\ twice.atoms = once.atoms
         /\ twice.dragged = once.dragged
         /\ twice.session = once.session
         /\ twice.errors = <<>>
  /\ \A once \in {handlePointerUp(atoms, bonds, draggedAtom)} :
     \A twice \in {handlePointerUp(once.atoms, bonds, once.dragged)} :
       /\ twice.atoms = once.atoms
       /\ twice.dragged = once.dragged
       /\ twice.errors = <<>>

\* a pointerUp has just reported a rejected bond, which a second pointerUp
\* must not report again
C17_Witness ==
  /\ last.op = "up"
  /\ last.errors # <<>>
  /\ last.nearby # Null

\* the ids of the atoms that share a Bond record with the atom
Partners(bs, id) ==
  {bs[i].atom2Id : i \in {j \in DOMAIN bs : bs[j].atom1Id = id}}
    \cup {bs[i].atom1Id : i \in {j \in DOMAIN bs : bs[j].atom2Id = id}}

\* C18: the bonded-atom set of every atom holds exactly the ids of the atoms
\* it shares a Bond record with.
C18_BondedIdsConsistent ==
  \A i \in DOMAIN atoms : atoms[i].bondedAtomIds = Partners(bonds, atoms[i].id)

\* the atoms of the store that are in a component of two or more atoms, joined
\* by bonds, every member of which has currentBonds equal to its valency
InStableComponent(as, bs) ==
  {i \in DOMAIN as :
     /\ ~Unsaturated(as[i])
     /\ \E c \in {Reach(bs, {as[i].id})} :
          /\ Cardinality(c) > 1
          /\ \A j \in DOMAIN as : as[j].id \in c => ~Unsaturated(as[j])}

\* an atom that is in the store before and after the step has another
\* currentBonds after it
BondCountChanges ==
  \E i \in DOMAIN atoms, j \in DOMAIN atoms' :
    atoms[i].id = atoms'[j].id /\ atoms[i].currentBonds # atoms'[j].currentBonds

AttemptView ==
  IF last'.created = <<>> THEN ScanView(atoms')
  ELSE [i \in DOMAIN last'.scanAtoms |->
          IF last'.scanAtoms[i].id
               \in {last'.created[1].atom1Id, last'.created[1].atom2Id}
          THEN [last'.scanAtoms[i] EXCEPT !.currentBonds = @ - 1]
          ELSE last'.scanAtoms[i]]

\* no atom of the view is dragged, or the dragged one is saturated, or every
\* other atom is saturated, outside the bonding threshold or already paired
\* with the dragged one in the session set
NoBondPossible(view, dragged, session) ==
  \A d \in DOMAIN view : view[d].id = dragged =>
    \/ view[d].currentBonds >= Valency(view[d])
    \/ \A i \in DOMAIN view \ {d} :
         \/ view[i].currentBonds >= Valency(view[i])
         \/ DistSq(view[d].x, view[i].x) >= (BOND_DISTANCE + 10) * (BOND_DISTANCE + 10)
         \/ PairKey(view[d].id, view[i].id) \in session

\* the step made no bond and left the bonds, every currentBonds, the history
\* and the session set as they were
Unapplied ==
  /\ nextBondId' = nextBondId
  /\ bonds' = bonds
  /\ bondHistory' = bondHistory
  /\ dragSession' = dragSession
  /\ Len(atoms') >= Len(atoms)
  /\ \A i \in DOMAIN atoms :
       atoms'[i].id = atoms[i].id /\ atoms'[i].currentBonds = atoms[i].currentBonds
  /\ \A i \in DOMAIN atoms' \ DOMAIN atoms : atoms'[i].currentBonds = 0

\* what every step of update has: the game is on, the pointer stays, the
\* history does not shrink and the step reports a bond or nothing
LooksLikeFrame ==
  /\ gameActive /\ gameActive'
  /\ mouse' = mouse
  /\ last'.op \in {"tick", "none"}
  /\ Len(bondHistory') >= Len(bondHistory)

\* C20: a tick whose bond attempt finds the dragged atom saturated, or no
\* other atom that is unsaturated, within the bonding threshold and not yet
\* paired with it in the session set, creates no bond and leaves the bonds,
\* every atom's currentBonds, the undo history and the session set unchanged.
C20_NeverHalfApplied ==
  [][(/\ LooksLikeFrame
      /\ \A view \in {AttemptView} : NoBondPossible(view, draggedAtom, dragSession))
       => (Unapplied \/ ~TickAny)]_vars

\* a frame later in the gesture that bonded two atoms: both have capacity
\* left and are within the threshold, and the session set kept them apart
C20_Witness ==
  /\ last = Quiet /\ particles = NoParticles /\ gameActive
  /\ \E d \in DOMAIN atoms, i \in DOMAIN atoms :
       /\ atoms[d].id = draggedAtom /\ i # d
       /\ Unsaturated(atoms[d]) /\ Unsaturated(atoms[i])
       /\ Within(atoms[d].x, atoms[i].x, BOND_DISTANCE + 10)
       /\ PairKey(atoms[d].id, atoms[i].id) \in dragSession
       /\ IsBonded(bonds, atoms[d].id, atoms[i].id)

\* the bonds the step made: those it left in the store that were not there,
\* and the one it scanned and removed at once
NewBonds == (Range(bonds') \ Range(bonds)) \cup Range(last'.created)

\* C21: a step creates at most one bond, and none when no atom is being
\* dragged; a created bond has the atom dragged at that tick as an endpoint.
C21_OneBondOfTheDragger ==
  [][/\ Cardinality(NewBonds) <= 1
     /\ nextBondId' = nextBondId + Cardinality(NewBonds)
     /\ draggedAtom = Null => NewBonds = {}
     /\ \A b \in NewBonds : draggedAtom \in {b.atom1Id, b.atom2Id}]_vars

\* a second bond of the atom being dragged, both bonds still in the store
C21_Witness ==
  /\ Created /\ Len(bonds) = 2
  /\ last.created[1] = bonds[2]
  /\ draggedAtom \in {bonds[2].atom1Id, bonds[2].atom2Id}
  /\ draggedAtom \in {bonds[1].atom1Id, bonds[1].atom2Id}

\* atom n of the view has spare capacity, is within the bonding threshold of
\* atom d and is not paired with it in the session set
Qualifies(view, d, n, session) ==
  /\ n # d
  /\ view[n].currentBonds < Valency(view[n])
  /\ DistSq(view[d].x, view[n].x) < (BOND_DISTANCE + 10) * (BOND_DISTANCE + 10)
  /\ PairKey(view[d].id, view[n].id) \notin session

\* the dragged atom of the view has spare capacity and some atom qualifies
BondPossible(view, dragged, session) ==
  \E d \in DOMAIN view :
    /\ view[d].id = dragged
    /\ view[d].currentBonds < Valency(view[d])
    /\ \E n \in DOMAIN view : Qualifies(view, d, n, session)

\* the step made a bond from the dragged atom to an atom that qualified, put
\* the pair into the session set and gave the bond to the stability scan
Applied(view) ==
  /\ last'.created # <<>>
  /\ \E b \in {last'.created[1]} :
       /\ b.atom1Id = draggedAtom
       /\ \E d \in DOMAIN view, n \in DOMAIN view :
            /\ view[d].id = b.atom1Id /\ view[n].id = b.atom2Id
            /\ Qualifies(view, d, n, dragSession)
       /\ PairKey(b.atom1Id, b.atom2Id) \in dragSession'
       /\ last'.scanAtoms # <<>>
       /\ b \in Range(last'.scanBonds)

\* C22: a tick whose bond attempt finds the dragged atom with spare capacity
\* and another atom with spare capacity, within the bonding threshold and not
\* paired with it in the session set, creates in that tick a bond between the
\* dragged atom and such an atom, adds the pair to the session set and runs
\* the stability scan on the store that has the bond.
C22_BondInSameTick ==
  [][\A view \in {AttemptView} :
       (LooksLikeFrame /\ BondPossible(view, draggedAtom, dragSession))
         => (Applied(view) \/ ~TickAny)]_vars

\* a bond was made although the dragged atom had the choice of two atoms
C22_Witness ==
  /\ Created /\ PairKey(last.created[1].atom1Id, last.created[1].atom2Id) \in dragSession
  /\ \E d \in DOMAIN last.scanAtoms, k \in DOMAIN last.scanAtoms :
       /\ last.scanAtoms[d].id = last.created[1].atom1Id
       /\ last.scanAtoms[k].id \notin {last.created[1].atom1Id, last.created[1].atom2Id}
       /\ Qualifies(last.scanAtoms, d, k, dragSession)

\* C23: after an undo that resolves a bond, the history is the part of the
\* previous history before the resolved bond's id; the resolved id and the
\* ids after it, all of them stale, are gone, the older entries are kept in
\* their order.
C23_HistoryPrefix ==
  [][(last'.op = "undo" /\ last'.undone # <<>>) =>
       \E k \in DOMAIN bondHistory :
         /\ bondHistory[k] = last'.undone[1].id
         /\ bondHistory' = SubSeq(bondHistory, 1, k - 1)
         /\ \A j \in DOMAIN bondHistory : j > k => bondHistory[j] \notin BondIds(bonds)
         /\ Len(last'.popped) = Len(bondHistory) - k + 1]_vars

\* an undo went past a stale id, resolved the bond recorded before it and
\* kept an older entry
C23_Witness ==
  /\ last.op = "undo" /\ last.undone # <<>>
  /\ Len(last.popped) = 2
  /\ last.popped[2] = last.undone[1].id
  /\ bondHistory # <<>>

\* the bonds the scan of the step removed
ScanRemoved == Range(last'.scanBonds) \ Range(bonds')

\* C24: a stability scan leaves the history as the bond attempt before it
\* left it, the ids of the bonds it removes included; while a game runs an
\* id leaves the history only in an undo.
C24_ScanKeepsHistory ==
  [][/\ last'.reported # <<>> =>
          /\ bondHistory' = Append(bondHistory, last'.created[1].id)
          /\ ScanRemoved # {}
          /\ \A b \in ScanRemoved :
               b.id \in Range(bondHistory) \cup {last'.created[1].id}
                 => b.id \in Range(bondHistory')
     /\ (gameActive' /\ \E k \in DOMAIN bondHistory :
                          bondHistory[k] \notin Range(bondHistory'))
          => last'.op = "undo" /\ last'.popped # <<>>]_vars

\* a scan has removed every bond of the store and the history still holds
\* the ids of two of them
C24_Witness ==
  /\ last.reported # <<>> /\ bonds = <<>>
  /\ Len(bondHistory) = 2
  /\ \A k \in DOMAIN bondHistory : bondHistory[k] \in BondIds(last.scanBonds)

\* the step is a call of handlePointerUp
PointerUpStep == draggedAtom' = Null /\ last'.op \in {"up", "none"} /\ PointerUp

\* C25: pointerUp creates and removes no bond and no atom and changes no
\* currentBonds, nor the history, nor the session set; of the atoms it
\* changes only the drag flag of the released atom, and it assigns
\* velocities only to the released atom and the one nearby atom.
C25_PointerUpFrame ==
  [][PointerUpStep =>
       /\ bonds' = bonds /\ nextBondId' = nextBondId /\ nextAtomId' = nextAtomId
       /\ bondHistory' = bondHistory
       /\ dragSession' = dragSession
       /\ DOMAIN atoms' = DOMAIN atoms
       /\ \A i \in DOMAIN atoms :
            \/ atoms'[i] = atoms[i]
            \/ /\ atoms[i].id = draggedAtom
               /\ atoms'[i] = [atoms[i] EXCEPT !.isDragging = FALSE]
       /\ {v[1] : v \in last'.vel} \subseteq {last'.released, last'.nearby} \ {Null}
       /\ Cardinality(last'.vel) <= 2]_vars

\* an atom was released in a gesture that had bonded it: the bond, its
\* history entry and the session pair are still there
C25_Witness ==
  /\ last.op = "up" /\ last.vel # {}
  /\ dragSession # {} /\ bonds # <<>>
  /\ Len(bondHistory) = Len(bonds)
  /\ \E i \in DOMAIN atoms : atoms[i].id = last.released /\ atoms[i].currentBonds > 0

\* atom k is another atom than atom i, less than BOND_DISTANCE + 20 from it
InRejectionRange(as, i, k) ==
  k # i /\ DistSq(as[i].x, as[k].x) < (BOND_DISTANCE + 20) * (BOND_DISTANCE + 20)

\* atom n is the atom pointerUp calls nearby when atom i is released: the
\* first of the store in range
IsTheNearby(as, i, n) ==
  InRejectionRange(as, i, n) /\ \A k \in 1..(n - 1) : ~InRejectionRange(as, i, k)

Stored(id) == atoms[FirstIndex({i \in DOMAIN atoms : atoms[i].id = id})]

\* C27: a release next to an atom that shares no bond with the released one
\* emits exactly one error; its message names the type of the nearby atom
\* when that is saturated, else the type of the released atom when that is
\* saturated, and is the generic one when neither is.
C27_RejectionReason ==
  ( /\ last.op = "up" /\ last.released # Null /\ last.nearby # Null
    /\ ~IsBonded(bonds, last.released, last.nearby) ) =>
    /\ Len(last.errors) = 1
    /\ \E atom \in {Stored(last.released)}, nearby \in {Stored(last.nearby)} :
       \E msg \in {last.errors[1]} :
         /\ nearby.currentBonds = Valency(nearby)
              => msg[1] = ATOM_DEFS[nearby.type].symbol /\ Len(msg) = 4
                   /\ msg[3] = Valency(nearby)
         /\ (nearby.currentBonds # Valency(nearby) /\ atom.currentBonds = Valency(atom))
              => msg = <<ATOM_DEFS[atom.type].symbol, " is full!">>
         /\ (nearby.currentBonds # Valency(nearby) /\ atom.currentBonds # Valency(atom))
              <=> msg = <<"Bond blocked or invalid!">>

\* a saturated atom was released next to a saturated atom it shares no bond
\* with, and the error names the nearby one
C27_Witness ==
  /\ last.op = "up" /\ Len(last.errors) = 1 /\ last.nearby # Null
  /\ ~Unsaturated(Stored(last.released)) /\ ~Unsaturated(Stored(last.nearby))
  /\ Len(last.errors[1]) = 4

\* the step spawned an atom
Spawned == nextAtomId' # nextAtomId

\* C28: no step leaves more than POPULATION_CAP atoms; a step spawns at most
\* one atom, and only with fewer than POPULATION_CAP atoms in the store and
\* more than SPAWN_MS since the last spawn; the spawned atom is put last,
\* with currentBonds 0 and its drag flag clear.
C28_PopulationCap ==
  [][/\ Len(atoms') <= POPULATION_CAP
     /\ Len(atoms') <= Len(atoms) + 1
     /\ nextAtomId' \in {nextAtomId, nextAtomId + 1}
     /\ Len(atoms') > Len(atoms) => Spawned
     /\ Spawned =>
          /\ Len(atoms) < POPULATION_CAP
          /\ \E dt \in SpawnDts : lastSpawnAge + dt > SPAWN_MS
          /\ lastSpawnAge' = 0
          /\ Len(atoms') = Len(atoms) + 1
          /\ \E a \in {atoms'[Len(atoms')]} :
               a.id = nextAtomId /\ a.currentBonds = 0 /\ ~a.isDragging
                 /\ a.bondedAtomIds = {}]_vars

\* the store is at the cap and more than the interval has passed since the
\* last spawn: the frame spawned nothing
C28_Witness ==
  /\ last = Quiet
  /\ Len(atoms) = POPULATION_CAP
  /\ lastSpawnAge > SPAWN_MS
  /\ nextAtomId = POPULATION_CAP + 1

\* the scan of the step removed the atom that was being dragged
ScanRemovedDragged ==
  /\ draggedAtom # Null
  /\ last'.reported # <<>>
  /\ draggedAtom \in ToRemove(last'.reported)

\* C29: a scan that removes the dragged atom leaves no dragged atom recorded;
\* in the store it leaves, a frame makes no bond wherever the atoms move and
\* a pointerUp emits no error, assigns no velocity and changes no atom; and
\* no atom is recorded as dragged again before a pointerDown, nor is a bond
\* made while none is.
C29_DraggedCleared ==
  [][/\ ScanRemovedDragged =>
          /\ draggedAtom' = Null
          /\ draggedAtom \notin Ids(atoms')
          /\ \A nx \in Moves(atoms', mouse') :
               ~BondAttempt(Physics(atoms', nx), bonds', draggedAtom', dragSession',
                            nextBondId').made
          /\ \E h \in {handlePointerUp(atoms', bonds', draggedAtom')} :
               h.errors = <<>> /\ h.vel = {} /\ h.atoms = atoms' /\ h.dragged = Null
     /\ (draggedAtom = Null /\ draggedAtom' # Null) => last'.op = "down"
     /\ draggedAtom = Null => nextBondId' = nextBondId /\ last'.errors = <<>>]_vars

\* the atom being dragged closed a molecule and went with it; another atom
\* is left in the store
C29_Witness ==
  /\ Created /\ last.reported # <<>>
  /\ last.created[1].atom1Id \in ToRemove(last.reported)
  /\ draggedAtom = Null
  /\ atoms # <<>>

\* C30: at most one atom has its drag flag set, and an atom has it set
\* exactly when it is the recorded dragged atom.
C30_DragFlagConsistent ==
  /\ Cardinality({i \in DOMAIN atoms : atoms[i].isDragging}) <= 1
  /\ \A i \in DOMAIN atoms : atoms[i].isDragging <=> atoms[i].id = draggedAtom

\* C31: whenever a dragged atom id is recorded, an atom with that id is in
\* the store.
C31_DraggedExists == draggedAtom # Null => draggedAtom \in Ids(atoms)

\* what n calls of undo in a row, with nothing in between, leave
RECURSIVE UndoTimes(_, _, _, _)
UndoTimes(n, hist, as, bs) ==
  IF n = 0 THEN [history |-> hist, atoms |-> as, bonds |-> bs]
  ELSE LET u == undo(hist, as, bs)
       IN UndoTimes(n - 1, u.history, u.atoms, u.bonds)

\* C32: the id of every bond in the store is in the history; so a call of
\* undo removes one bond when the store has one, every call ends after at
\* most as many pops as the history has entries, and as many calls in a row
\* as the history has entries leave no bond and an empty history.
C32_UndoDrains ==
  /\ BondIds(bonds) \subseteq Range(bondHistory)
  /\ \E u \in {undo(bondHistory, atoms, bonds)} :
       /\ bonds # <<>> => Len(u.undone) = 1 /\ Len(u.bonds) = Len(bonds) - 1
       /\ Len(u.popped) <= Len(bondHistory)
       /\ Len(u.history) + Len(u.popped) = Len(bondHistory)
  /\ \E r \in {UndoTimes(Len(bondHistory), bondHistory, atoms, bonds)} :
       r.bonds = <<>> /\ r.history = <<>>
  /\ \A n \in 0..Len(bondHistory) :
       Len(UndoTimes(n, bondHistory, atoms, bonds).bonds) <= Len(bonds)

\* an undo has removed the second of two bonds; the first is in the store
\* with its id as the only entry of the history, one more undo from no bond
C32_Witness ==
  /\ last.op = "undo" /\ last.undone # <<>>
  /\ Len(bonds) = 1 /\ bondHistory = <<bonds[1].id>>
  /\ UndoTimes(1, bondHistory, atoms, bonds).bonds = <<>>

====
